---- MODULE Spec2Model ----
(***************************************************************************)
(* Model of the two sketches of this repository:                           *)
(*   task-1/bloom.py        BloomFilter (add, contains)                    *)
(*   task-2/hyperloglog.py  HyperLogLog (add, count)                       *)
(* Each script is its own process; a process drives one instance.          *)
(***************************************************************************)
EXTENDS Integers, Sequences, FiniteSets, TLC

VARIABLES
    hashSecret,   \* the key of this process's built-in str hash (bloom.py:21)
    bloom,        \* the BloomFilter instance: size, num_hashes, bit_array
    hll,          \* the HyperLogLog instance: p, m, registers, alpha, ...
    added,        \* history: the values passed to add so far
    ret,          \* the last call made by the caller and what it returned
    answers,      \* history: contains results since the last add
    estimates,    \* history: count results since the last add
    replay,       \* a second process run replaying the same add calls
    pc,           \* per thread: position inside add
    loc           \* per thread: the locals of add

vars == <<hashSecret, bloom, hll, added, ret, answers, estimates, replay, pc, loc>>

----------------------------------------------------------------------------
(* Bounds of the model *)

MaxSize == 3        \* largest size passed to BloomFilter(...)
MaxHashes == 2      \* largest num_hashes passed to BloomFilter(...)
MaxP == 2           \* largest p passed to HyperLogLog(...)
MaxSecret == 1      \* hash keys 0..MaxSecret a process may start with
HashBits == 8       \* width of the modelled built-in hash value
MaxBatch == 2       \* longest list passed to check_password_uniqueness

----------------------------------------------------------------------------
(* Values and their string form *)

Pow2(n) == 2 ^ n

Abs(n) == IF n < 0 THEN -n ELSE n

Max(a, b) == IF a >= b THEN a ELSE b

None == [kind |-> "None", s |-> <<>>, n |-> 0]

StrVal(s) == [kind |-> "str", s |-> s, n |-> 0]

IntVal(n) == [kind |-> "int", s |-> <<>>, n |-> n]

DigitChar == <<"0", "1", "2", "3", "4", "5", "6", "7", "8", "9">>

RECURSIVE Digits(_)
Digits(n) == IF n < 10 THEN <<DigitChar[n + 1]>>
             ELSE Digits(n \div 10) \o <<DigitChar[(n % 10) + 1]>>

\* str(item): a string is itself, an int is its decimal digits
Str(item) == IF item.kind = "str" THEN item.s
             ELSE IF item.kind = "int"
                  THEN (IF item.n < 0 THEN <<"-">> \o Digits(-item.n)
                        ELSE Digits(item.n))
                  ELSE <<"N", "o", "n", "e">>

\* f"{item}{seed}"
FStr(item, seed) == Str(StrVal(item)) \o Str(IntVal(seed))

Ord(c) == CASE c = "0" -> 48 [] c = "1" -> 49 [] c = "2" -> 50 [] c = "3" -> 51
            [] c = "4" -> 52 [] c = "5" -> 53 [] c = "6" -> 54 [] c = "7" -> 55
            [] c = "8" -> 56 [] c = "9" -> 57 [] c = "-" -> 45 [] c = "N" -> 78
            [] c = "a" -> 97 [] c = "b" -> 98 [] c = "e" -> 101
            [] c = "n" -> 110 [] c = "o" -> 111

\* The values a caller passes to a BloomFilter
Passwords == {None, StrVal(<<"a">>), StrVal(<<"a", "b">>), IntVal(1), StrVal(<<"1">>)}

\* The values a caller passes to a HyperLogLog
Addresses == {None, StrVal(<<"a">>), StrVal(<<"b">>), StrVal(<<"a", "b">>),
              StrVal(<<"b", "a">>), IntVal(1), StrVal(<<"1">>),
              StrVal(<<"2">>)}

----------------------------------------------------------------------------
(* task-1/bloom.py *)

HashSecrets == 0..MaxSecret

\* The built-in hash of a str: a keyed hash whose key is drawn once per
\* process, with a signed result that is never -1.
RECURSIVE PyHashMix(_, _)
PyHashMix(s, x) == IF s = <<>> THEN x
                   ELSE PyHashMix(Tail(s), (x * 33 + Ord(Head(s))) % Pow2(HashBits))

PyHash(s, secret) ==
    LET u == PyHashMix(s, secret)
        h == IF u >= Pow2(HashBits - 1) THEN u - Pow2(HashBits) ELSE u
    IN  IF h = -1 THEN -2 ELSE h

NoBloom == [size |-> 0, num_hashes |-> 0, bit_array |-> <<>>]

\* BloomFilter.__init__ past its two checks
BloomFilter_init(size, num_hashes) ==
    [size |-> size, num_hashes |-> num_hashes,
     bit_array |-> [i \in 0..(size - 1) |-> FALSE]]

\* an index taken modulo size + 1
_hash_wide(self, item, seed, secret) ==
    LET hash_value == PyHash(FStr(item, seed), secret)
    IN  Abs(hash_value) % (self.size + 1)

_hash(self, item, seed, secret) ==
    LET hash_value == PyHash(FStr(item, seed), secret)
    IN  Abs(hash_value) % self.size

\* a loop that stops one seed early
RECURSIVE BloomFilter_add_loop_short(_, _, _, _)
BloomFilter_add_loop_short(self, item_str, i, secret) ==
    IF i >= self.num_hashes - 1 THEN self
    ELSE LET index == _hash(self, item_str, i, secret)
         IN  BloomFilter_add_loop_short([self EXCEPT !.bit_array[index] = TRUE],
                                        item_str, i + 1, secret)

\* a loop that flips the bit instead of setting it
RECURSIVE BloomFilter_add_loop_flip(_, _, _, _)
BloomFilter_add_loop_flip(self, item_str, i, secret) ==
    IF i >= self.num_hashes THEN self
    ELSE LET index == _hash(self, item_str, i, secret)
         IN  BloomFilter_add_loop_flip(
                 [self EXCEPT !.bit_array[index] = ~self.bit_array[index]],
                 item_str, i + 1, secret)

RECURSIVE BloomFilter_add_loop(_, _, _, _)
BloomFilter_add_loop(self, item_str, i, secret) ==
    IF i >= self.num_hashes THEN self
    ELSE LET index == _hash(self, item_str, i, secret)
         IN  BloomFilter_add_loop([self EXCEPT !.bit_array[index] = TRUE], item_str, i + 1, secret)

\* an add that starts from a cleared array
BloomFilter_add_fresh(self, item, secret) ==
    IF item = None THEN self
    ELSE BloomFilter_add_loop(BloomFilter_init(self.size, self.num_hashes),
                              Str(item), 0, secret)

\* an add that ignores every item that is not a str
BloomFilter_add_stronly(self, item, secret) ==
    IF item = None \/ item.kind # "str" THEN self
    ELSE BloomFilter_add_loop(self, Str(item), 0, secret)

\* BloomFilter.add: the instance after the call
BloomFilter_add(self, item, secret) ==
    IF item = None THEN self
    ELSE BloomFilter_add_loop(self, Str(item), 0, secret)

\* a loop that answers True at the first set bit
RECURSIVE BloomFilter_contains_loop_any(_, _, _, _)
BloomFilter_contains_loop_any(self, item_str, i, secret) ==
    IF i >= self.num_hashes THEN FALSE
    ELSE LET index == _hash(self, item_str, i, secret)
         IN  IF self.bit_array[index] THEN TRUE
             ELSE BloomFilter_contains_loop_any(self, item_str, i + 1, secret)

RECURSIVE BloomFilter_contains_loop(_, _, _, _)
BloomFilter_contains_loop(self, item_str, i, secret) ==
    IF i >= self.num_hashes THEN TRUE
    ELSE LET index == _hash(self, item_str, i, secret)
         IN  IF ~self.bit_array[index] THEN FALSE
             ELSE BloomFilter_contains_loop(self, item_str, i + 1, secret)

\* a contains without the None check
BloomFilter_contains_nocheck(self, item, secret) ==
    BloomFilter_contains_loop(self, Str(item), 0, secret)

\* BloomFilter.contains: the value returned
BloomFilter_contains(self, item, secret) ==
    IF item = None THEN FALSE
    ELSE BloomFilter_contains_loop(self, Str(item), 0, secret)

\* a list value, and the lists of at most n values drawn from S
ListVal(s) == [kind |-> "list", s |-> s, n |-> 0]

RECURSIVE SeqsUpTo(_, _)
SeqsUpTo(S, n) ==
    IF n = 0 THEN {<<>>}
    ELSE LET shorter == SeqsUpTo(S, n - 1)
         IN  shorter \cup {Append(q, x) : q \in {r \in shorter : Len(r) = n - 1}, x \in S}

\* the two status strings check_password_uniqueness stores (bloom.py:66, 68)
StatusUsed == "already used"

StatusUnique == "unique"

\* results[key] = status on a dict
DictSet(results, key, status) ==
    [k \in (DOMAIN results) \cup {key} |-> IF k = key THEN status ELSE results[k]]

\* a loop that skips the None entries of the list
RECURSIVE check_loop_skipnone(_, _, _, _)
check_loop_skipnone(b, passwords, results, secret) ==
    IF passwords = <<>> THEN results
    ELSE LET password == Head(passwords)
             password_str == Str(password)
         IN  IF password = None
             THEN check_loop_skipnone(b, Tail(passwords), results, secret)
             ELSE check_loop_skipnone(b, Tail(passwords),
                      DictSet(results, password_str,
                              IF BloomFilter_contains(b, StrVal(password_str), secret)
                              THEN StatusUsed ELSE StatusUnique),
                      secret)

\* the for loop of check_password_uniqueness
RECURSIVE check_loop(_, _, _, _)
check_loop(b, passwords, results, secret) ==
    IF passwords = <<>> THEN results
    ELSE LET password == Head(passwords)
             password_str == IF password = None THEN <<>> ELSE Str(password)
         IN  check_loop(b, Tail(passwords),
                 DictSet(results, password_str,
                         IF BloomFilter_contains(b, StrVal(password_str), secret)
                         THEN StatusUsed ELSE StatusUnique),
                 secret)

\* check_password_uniqueness(bloom, new_passwords): what it raises and returns;
\* NoBloom stands for bloom = None
check_password_uniqueness(b, new_passwords, secret) ==
    IF b = NoBloom THEN [raised |-> "ValueError", results |-> <<>>]
    ELSE IF new_passwords = None THEN [raised |-> "", results |-> <<>>]
    ELSE [raised |-> "", results |-> check_loop(b, new_passwords.s, <<>>, secret)]

----------------------------------------------------------------------------
(* task-2/hyperloglog.py *)

\* An unsigned 32-bit value as its 32 bits, bit 0 first
RECURSIVE BitsOf(_, _)
BitsOf(n, width) == IF width = 0 THEN <<>>
                    ELSE <<n % 2>> \o BitsOf(n \div 2, width - 1)

U32(hi, lo) == BitsOf(lo, 16) \o BitsOf(hi, 16)

RECURSIVE BitsToInt(_)
BitsToInt(b) == IF b = <<>> THEN 0 ELSE Head(b) + 2 * BitsToInt(Tail(b))

\* x & y
BitAnd(x, y) == [i \in 1..32 |-> x[i] * y[i]]

\* x >> k
ShiftRight(x, k) == [i \in 1..32 |-> IF i + k <= 32 THEN x[i + k] ELSE 0]

\* mmh3.hash(s, signed=False): a fixed unkeyed 32-bit hash of the string
mmh3_hash(s) ==
    CASE s = <<"a">>      -> U32(0, 0)
      [] s = <<"b">>      -> U32(65535, 65535)
      [] s = <<"1">>      -> U32(0, 5)
      [] s = <<"a", "b">> -> U32(0, 13)
      [] s = <<"b", "a">> -> U32(32768, 7)
      [] s = <<"2">>      -> U32(0, 2)
      [] OTHER            -> U32(1, 2)

\* bin(w): "0b" and the binary digits of w, most significant first
RECURSIVE BinDigits(_)
BinDigits(w) == IF w < 2 THEN <<DigitChar[w + 1]>>
                ELSE BinDigits(w \div 2) \o <<DigitChar[(w % 2) + 1]>>

bin(w) == <<"0", "b">> \o BinDigits(w)

\* a rank that counts one character of the "0b" prefix
_rho_prefix(w) == IF w = 0 THEN 32 ELSE Len(bin(w)) - 1

_rho(w) == IF w = 0 THEN 32 ELSE Len(bin(w)) - 2

\* HyperLogLog._get_alpha, as a fraction num/den
_get_alpha(p, m) ==
    IF p <= 16 THEN [num |-> 673, den |-> 1000]
    ELSE IF p = 32 THEN [num |-> 697, den |-> 1000]
    ELSE [num |-> 7213 * m, den |-> 10000 * m + 10790]

NoHll == [p |-> 0, m |-> 0, registers |-> <<>>,
          alpha |-> [num |-> 0, den |-> 1], small_range_correction |-> 0]

\* HyperLogLog.__init__ past its check
HyperLogLog_init(p) ==
    LET m == Pow2(p)
    IN  [p |-> p, m |-> m, registers |-> [j \in 0..(m - 1) |-> 0],
         alpha |-> _get_alpha(p, m),
         small_range_correction |-> (5 * m) \div 2]

\* the register index j and the remainder w that add derives from an item
hllIndex(self, item) ==
    BitsToInt(BitAnd(mmh3_hash(Str(item)), BitsOf(self.m - 1, 32)))

\* a remainder shifted one bit too far
hllRemainder_deep(self, item) ==
    BitsToInt(ShiftRight(mmh3_hash(Str(item)), self.p + 1))

hllRemainder(self, item) ==
    BitsToInt(ShiftRight(mmh3_hash(Str(item)), self.p))

\* an add that stores the rank without taking the maximum
HyperLogLog_add_overwrite(self, item) ==
    IF item = None THEN self
    ELSE LET j == hllIndex(self, item)
             w == hllRemainder(self, item)
         IN  [self EXCEPT !.registers[j] = _rho(w)]

\* an add that writes a register only while it is 0
HyperLogLog_add_first(self, item) ==
    IF item = None THEN self
    ELSE LET j == hllIndex(self, item)
             w == hllRemainder(self, item)
         IN  IF self.registers[j] = 0
             THEN [self EXCEPT !.registers[j] = _rho(w)]
             ELSE self

\* HyperLogLog.add: the instance after the call
HyperLogLog_add(self, item) ==
    IF item = None THEN self
    ELSE LET j == hllIndex(self, item)
             w == hllRemainder(self, item)
         IN  [self EXCEPT !.registers[j] = Max(self.registers[j], _rho(w))]

\* 2.0 ** -r as a fixed-point number: hi counts 2^-16, lo counts 2^-32
Pow2Neg(r) == IF r <= 16 THEN [hi |-> Pow2(16 - r), lo |-> 0]
              ELSE [hi |-> 0, lo |-> Pow2(32 - r)]

FixAdd(a, b) == LET lo == a.lo + b.lo
                IN  [hi |-> a.hi + b.hi + (lo \div 65536), lo |-> lo % 65536]

\* sum(2.0 ** -r for r in self.registers), registers j..m-1
RECURSIVE SumPow2Neg(_, _)
SumPow2Neg(self, j) ==
    IF j >= self.m THEN [hi |-> 0, lo |-> 0]
    ELSE FixAdd(Pow2Neg(self.registers[j]), SumPow2Neg(self, j + 1))

\* Z > 0, the guard of the division in count
FixPositive(Z) == Z.hi > 0 \/ Z.lo > 0

\* a comparison that always takes the small-range branch
RawLeq_always(E, threshold) == TRUE

\* E <= threshold for E = num / (den * Z), by long division in base 2^16
RawLeq(E, threshold) ==
    LET a  == E.num
        b  == threshold * E.den
        d0 == a \div b
        r0 == a % b
        d1 == (r0 * 65536) \div b
        r1 == (r0 * 65536) % b
        d2 == (r1 * 65536) \div b
        r2 == (r1 * 65536) % b
        z0 == E.Z.hi \div 65536
        z1 == E.Z.hi % 65536
        z2 == E.Z.lo
    IN  \/ d0 < z0
        \/ d0 = z0 /\ d1 < z1
        \/ d0 = z0 /\ d1 = z1 /\ d2 < z2
        \/ d0 = z0 /\ d1 = z1 /\ d2 = z2 /\ r2 = 0

\* a count of the registers that are not 0
CountZero_nonzero(self) == Cardinality({j \in 0..(self.m - 1) : self.registers[j] # 0})

\* self.registers.count(0)
CountZero(self) == Cardinality({j \in 0..(self.m - 1) : self.registers[j] = 0})

\* a count that takes the logarithm without looking at V
HyperLogLog_count_noguard(self) ==
    LET Z == SumPow2Neg(self, 0)
        E == [num |-> self.alpha.num * self.m * self.m, den |-> self.alpha.den, Z |-> Z]
        V == CountZero(self)
    IN  IF ~FixPositive(Z)
        THEN [branch |-> "ZeroDivisionError", m |-> self.m, V |-> 0, E |-> E]
        ELSE IF RawLeq(E, self.small_range_correction)
        THEN (IF V = 0
              THEN [branch |-> "ZeroDivisionError", m |-> self.m, V |-> V, E |-> E]
              ELSE [branch |-> "linear", m |-> self.m, V |-> V, E |-> E])
        ELSE [branch |-> "raw", m |-> self.m, V |-> 0, E |-> E]

\* HyperLogLog.count: the value returned. "raw" stands for the float
\* E = num / (den * Z), "linear" for the float m * log(m / V), and
\* "ZeroDivisionError" for a division by zero, which raises.
HyperLogLog_count(self) ==
    LET Z == SumPow2Neg(self, 0)
        E == [num |-> self.alpha.num * self.m * self.m, den |-> self.alpha.den, Z |-> Z]
        V == CountZero(self)
    IN  IF ~FixPositive(Z)
        THEN [branch |-> "ZeroDivisionError", m |-> self.m, V |-> 0, E |-> E]
        ELSE IF RawLeq(E, self.small_range_correction) /\ V > 0
        THEN [branch |-> "linear", m |-> self.m, V |-> V, E |-> E]
        ELSE [branch |-> "raw", m |-> self.m, V |-> 0, E |-> E]

----------------------------------------------------------------------------
(* The single-threaded caller *)

NoReplay == [hashSecret |-> 0, bloom |-> NoBloom]

NoCall == [op |-> "start", item |-> None, args |-> <<>>, raised |-> "",
           val |-> "None", again |-> FALSE]

\* the record of a call; again: it repeats the call made just before it
Call(op, item, args, raised, val) ==
    [op |-> op, item |-> item, args |-> args, raised |-> raised, val |-> val,
     again |-> (ret.op = op /\ ret.item = item)]

Init ==
    /\ hashSecret \in HashSecrets
    /\ bloom = NoBloom
    /\ hll = NoHll
    /\ added = {}
    /\ ret = NoCall
    /\ answers = {}
    /\ estimates = {}
    /\ replay = NoReplay
    /\ pc = <<>>
    /\ loc = <<>>

\* the checks at the head of BloomFilter.__init__
BloomFilterRaises(size, num_hashes) == size <= 0 \/ num_hashes <= 0

\* a check that lets p = 0 through
HyperLogLogRaises_neg(p) == p < 0

\* the check at the head of HyperLogLog.__init__
HyperLogLogRaises(p) == p <= 0

\* bloom = BloomFilter(size, num_hashes)
NewBloomFilter(size, num_hashes) ==
    /\ ret.op = "start"
    /\ IF BloomFilterRaises(size, num_hashes)
       THEN /\ ret' = Call("BloomFilter", None, <<size, num_hashes>>, "ValueError", "None")
            /\ bloom' = bloom
       ELSE /\ ret' = Call("BloomFilter", None, <<size, num_hashes>>, "", "None")
            /\ bloom' = BloomFilter_init(size, num_hashes)
    /\ UNCHANGED <<hashSecret, hll, added, answers, estimates, replay, pc, loc>>

\* bloom.add(item)
BloomAdd(item) ==
    /\ bloom.size > 0
    /\ bloom' = BloomFilter_add(bloom, item, hashSecret)
    /\ added' = IF item = None THEN added ELSE added \cup {item}
    /\ ret' = Call("add", item, <<>>, "", "None")
    /\ answers' = {}
    /\ UNCHANGED <<hashSecret, hll, estimates, replay, pc, loc>>

\* a contains that inserts the item it looked up
BloomContains_inserting(item) ==
    /\ bloom.size > 0
    /\ LET found == BloomFilter_contains(bloom, item, hashSecret)
       IN  /\ ret' = Call("contains", item, <<>>, "", found)
           /\ answers' = answers \cup {[item |-> item, val |-> found]}
    /\ bloom' = BloomFilter_add(bloom, item, hashSecret)
    /\ UNCHANGED <<hashSecret, hll, added, estimates, replay, pc, loc>>

\* bloom.contains(item)
BloomContains(item) ==
    /\ bloom.size > 0
    /\ LET found == BloomFilter_contains(bloom, item, hashSecret)
       IN  /\ ret' = Call("contains", item, <<>>, "", found)
           /\ answers' = answers \cup {[item |-> item, val |-> found]}
    /\ UNCHANGED <<hashSecret, bloom, hll, added, estimates, replay, pc, loc>>

\* hll = HyperLogLog(p)
NewHyperLogLog(p) ==
    /\ ret.op = "start"
    /\ IF HyperLogLogRaises(p)
       THEN /\ ret' = Call("HyperLogLog", None, <<p>>, "ValueError", "None")
            /\ hll' = hll
       ELSE /\ ret' = Call("HyperLogLog", None, <<p>>, "", "None")
            /\ hll' = HyperLogLog_init(p)
    /\ UNCHANGED <<hashSecret, bloom, added, answers, estimates, replay, pc, loc>>

\* hll.add(item)
HllAdd(item) ==
    /\ hll.m > 0
    /\ hll' = HyperLogLog_add(hll, item)
    /\ added' = IF item = None THEN added ELSE added \cup {item}
    /\ ret' = Call("add", item, <<>>, "", "None")
    /\ estimates' = {}
    /\ UNCHANGED <<hashSecret, bloom, answers, replay, pc, loc>>

\* hll.count()
HllCount ==
    /\ hll.m > 0
    /\ LET estimate == HyperLogLog_count(hll)
       IN  /\ ret' = Call("count", None, <<>>,
                          IF estimate.branch \in {"linear", "raw"} THEN ""
                          ELSE estimate.branch,
                          estimate)
           /\ estimates' = estimates \cup {estimate}
    /\ UNCHANGED <<hashSecret, bloom, hll, added, answers, replay, pc, loc>>

Next ==
    \/ \E size \in (-1)..MaxSize, num_hashes \in (-1)..MaxHashes :
           NewBloomFilter(size, num_hashes)
    \/ \E item \in Passwords : BloomAdd(item)
    \/ \E item \in Passwords : BloomContains(item)
    \/ \E p \in (-1)..MaxP : NewHyperLogLog(p)
    \/ \E item \in Addresses : HllAdd(item)
    \/ HllCount

Spec == Init /\ [][Next]_vars

----------------------------------------------------------------------------
(* Properties of the single-threaded caller (Spec) *)

BloomReady == bloom.size > 0

HllReady == hll.m > 0

AllBitsSet == \A i \in DOMAIN bloom.bit_array : bloom.bit_array[i]

\* C1: no false negatives. Every non-null value passed to add at any
\* earlier point is contained: contains answers TRUE for it in the current
\* state, and the contains call just made on such a value returned TRUE.
C1_NoFalseNegatives ==
    BloomReady =>
        /\ \A s \in added : BloomFilter_contains(bloom, s, hashSecret) = TRUE
        /\ (ret.op = "contains" /\ ret.item \in added) => ret.val = TRUE

\* contains just returned TRUE for an added value while another value was
\* added too and some bit of the array is still false
C1_Witness ==
    /\ BloomReady
    /\ ret.op = "contains" /\ ret.item \in added /\ ret.val = TRUE
    /\ Cardinality(added) >= 2
    /\ ~AllBitsSet

\* C3: the bit array always has exactly size entries, and no step of the
\* caller (add or contains) turns a true bit false or changes the size.
C3_BitsOnlySet ==
    /\ [](BloomReady => DOMAIN bloom.bit_array = 0..(bloom.size - 1))
    /\ [][BloomReady =>
            /\ bloom'.size = bloom.size
            /\ DOMAIN bloom'.bit_array = DOMAIN bloom.bit_array
            /\ \A i \in DOMAIN bloom.bit_array :
                   bloom.bit_array[i] => bloom'.bit_array[i]]_vars

\* a second distinct value was just added to an array that keeps a true bit
\* and a false bit
C3_Witness ==
    /\ BloomReady
    /\ ret.op = "add" /\ ret.item # None /\ ~ret.again
    /\ Cardinality({Str(s) : s \in added}) >= 2
    /\ \E i, k \in DOMAIN bloom.bit_array : bloom.bit_array[i] /\ ~bloom.bit_array[k]

\* C4: the register array always has exactly m = 2^p entries, and no step
\* of the caller (add or count) lowers a register.
C4_RegistersMonotone ==
    /\ [](HllReady => /\ hll.m = 2 ^ hll.p
                      /\ DOMAIN hll.registers = 0..(hll.m - 1))
    /\ [][HllReady =>
            /\ hll'.m = hll.m /\ hll'.p = hll.p
            /\ DOMAIN hll'.registers = DOMAIN hll.registers
            /\ \A j \in DOMAIN hll.registers :
                   hll'.registers[j] >= hll.registers[j]]_vars

\* add was just called with an item whose rank is below the value its
\* register already holds
C4_Witness ==
    /\ HllReady
    /\ ret.op = "add" /\ ret.item # None
    /\ hll.registers[hllIndex(hll, ret.item)] > _rho(hllRemainder(hll, ret.item))

\* C5: add is idempotent. A call of add that repeats the add call made just
\* before it leaves bit_array and registers as that first call left them,
\* and in every reachable state adding any value twice gives what adding
\* it once gives.
C5_AddIdempotent ==
    /\ [][(ret'.op = "add" /\ ret'.again) => (bloom' = bloom /\ hll' = hll)]_vars
    /\ [](BloomReady => \A x \in Passwords :
              BloomFilter_add(BloomFilter_add(bloom, x, hashSecret), x, hashSecret)
                  = BloomFilter_add(bloom, x, hashSecret))
    /\ [](HllReady => \A x \in Addresses :
              HyperLogLog_add(HyperLogLog_add(hll, x), x) = HyperLogLog_add(hll, x))

\* add(x) was just called twice in a row on a HyperLogLog, for a non-null x
\* whose register holds x's rank
C5_Witness ==
    /\ HllReady
    /\ ret.op = "add" /\ ret.again /\ ret.item # None
    /\ hll.registers[hllIndex(hll, ret.item)] = _rho(hllRemainder(hll, ret.item))

\* C6: null handling. add(None) changes neither bit_array nor registers
\* and raises nothing; contains(None) returns FALSE in every state.
C6_NullHandling ==
    /\ [][(ret'.op = "add" /\ ret'.item = None) =>
            (bloom' = bloom /\ hll' = hll /\ ret'.raised = "")]_vars
    /\ []((ret.op = "contains" /\ ret.item = None) =>
            (ret.val = FALSE /\ ret.raised = ""))

\* contains(None) just returned FALSE on an array whose bits are all set
C6_Witness ==
    /\ BloomReady
    /\ ret.op = "contains" /\ ret.item = None /\ ret.val = FALSE
    /\ added # {}
    /\ AllBitsSet

\* C7: queries are pure and deterministic. contains and count change
\* neither bit_array nor registers, and the results collected since the
\* last add hold one answer per item and one estimate.
C7_QueriesPure ==
    /\ [][ret'.op \in {"contains", "count"} => (bloom' = bloom /\ hll' = hll)]_vars
    /\ [](\A a1, a2 \in answers : a1.item = a2.item => a1.val = a2.val)
    /\ [](Cardinality(estimates) <= 1)

\* contains was just repeated for a value it rejects, after another value
\* was queried and accepted, with no add in between
C7_Witness ==
    /\ BloomReady
    /\ ret.op = "contains" /\ ret.again /\ ret.val = FALSE
    /\ \E a \in answers : a.item # ret.item /\ a.val = TRUE

\* C8: construction raises ValueError and leaves no instance when size <= 0
\* or num_hashes <= 0 (BloomFilter) or p <= 0 (HyperLogLog); with positive
\* arguments it raises nothing and yields size bits, all false, or 2^p
\* registers, all 0.
C8_Construction ==
    /\ ret.op = "BloomFilter" =>
         IF ret.args[1] <= 0 \/ ret.args[2] <= 0
         THEN ret.raised = "ValueError" /\ bloom = NoBloom
         ELSE /\ ret.raised = ""
              /\ bloom.size = ret.args[1] /\ bloom.num_hashes = ret.args[2]
              /\ DOMAIN bloom.bit_array = 0..(ret.args[1] - 1)
              /\ \A i \in DOMAIN bloom.bit_array : bloom.bit_array[i] = FALSE
    /\ ret.op = "HyperLogLog" =>
         IF ret.args[1] <= 0
         THEN ret.raised = "ValueError" /\ hll = NoHll
         ELSE /\ ret.raised = ""
              /\ hll.p = ret.args[1] /\ hll.m = 2 ^ ret.args[1]
              /\ DOMAIN hll.registers = 0..(2 ^ ret.args[1] - 1)
              /\ \A j \in DOMAIN hll.registers : hll.registers[j] = 0
    /\ ret.raised = "ValueError" => (~BloomReady /\ ~HllReady)

\* BloomFilter(size, num_hashes) just raised for a positive size and a
\* num_hashes that is not positive
C8_Witness ==
    /\ ret.op = "BloomFilter" /\ ret.raised = "ValueError"
    /\ ret.args[1] > 0 /\ ret.args[2] <= 0
    /\ bloom = NoBloom

\* the pairs of distinct non-null values with the same string form
PasswordTwins ==
    {ab \in (Passwords \ {None}) \X (Passwords \ {None}) :
        ab[1] # ab[2] /\ Str(ab[1]) = Str(ab[2])}

AddressTwins ==
    {ab \in (Addresses \ {None}) \X (Addresses \ {None}) :
        ab[1] # ab[2] /\ Str(ab[1]) = Str(ab[2])}

\* C11: items count only through their string form. For non-null a and b
\* with str(a) = str(b), add(a) and add(b) lead from every reachable state
\* to the same state in either sketch, contains(b) is true after add(a),
\* and a contains call on a value whose string form was added returns TRUE.
C11_SameStringSameItem ==
    /\ BloomReady =>
         \A ab \in PasswordTwins :
             LET after == BloomFilter_add(bloom, ab[1], hashSecret)
             IN  /\ after = BloomFilter_add(bloom, ab[2], hashSecret)
                 /\ BloomFilter_contains(after, ab[2], hashSecret) = TRUE
    /\ HllReady =>
         \A ab \in AddressTwins :
             HyperLogLog_add(hll, ab[1]) = HyperLogLog_add(hll, ab[2])
    /\ (BloomReady /\ ret.op = "contains" /\ ret.item # None
          /\ \E s \in added : Str(s) = Str(ret.item)) => ret.val = TRUE

\* contains just returned TRUE for the str "1" when only the int 1 had been
\* added, on an array that still has a false bit
C11_Witness ==
    /\ BloomReady
    /\ added = {IntVal(1)}
    /\ ret.op = "contains" /\ ret.item = StrVal(<<"1">>) /\ ret.val = TRUE
    /\ ~AllBitsSet

\* C13: count never raises. In every reachable register state the sum Z is
\* positive, so alpha * m * m / Z is defined, and the logarithm branch is
\* taken only with V > 0 zero registers; a count call just made raised
\* nothing.
C13_CountNeverRaises ==
    /\ HllReady =>
         /\ FixPositive(SumPow2Neg(hll, 0))
         /\ HyperLogLog_count(hll).branch \in {"linear", "raw"}
         /\ HyperLogLog_count(hll).branch = "linear" => CountZero(hll) > 0
    /\ ret.op = "count" =>
         /\ ret.raised = ""
         /\ ret.val.branch = "linear" => ret.val.V > 0

\* count just returned on a sketch with no zero register whose raw estimate
\* is at or below the threshold, so only the V > 0 test kept it from the
\* logarithm
C13_Witness ==
    /\ HllReady
    /\ ret.op = "count" /\ ret.raised = "" /\ ret.val.branch = "raw"
    /\ CountZero(hll) = 0
    /\ RawLeq(ret.val.E, hll.small_range_correction)

\* the indices of an item, one per seed in 0..num_hashes-1
IndicesOf(item) ==
    {_hash(bloom, Str(item), seed, hashSecret) : seed \in 0..(bloom.num_hashes - 1)}

TrueBits == {i \in DOMAIN bloom.bit_array : bloom.bit_array[i]}

\* C14: contains of a non-null item returns true exactly when the bit at
\* index(item, seed) is true for every seed in 0..num_hashes-1; on an
\* instance to which nothing was added it is false for every item.
C14_ContainsIffAllBits ==
    BloomReady =>
        /\ (ret.op = "contains" /\ ret.item # None) =>
               (ret.val = TRUE <=> \A i \in IndicesOf(ret.item) : bloom.bit_array[i])
        /\ added = {} => \A item \in Passwords :
                             BloomFilter_contains(bloom, item, hashSecret) = FALSE

\* contains just returned FALSE for an item whose seed 0 bit is true and
\* whose seed 1 bit is false
C14_Witness ==
    /\ BloomReady /\ bloom.num_hashes >= 2
    /\ ret.op = "contains" /\ ret.item # None /\ ret.val = FALSE
    /\ bloom.bit_array[_hash(bloom, Str(ret.item), 0, hashSecret)]
    /\ ~bloom.bit_array[_hash(bloom, Str(ret.item), 1, hashSecret)]

\* C15: add of a non-null item sets exactly the bits at index(item, seed),
\* seed in 0..num_hashes-1; each index lies in 0..size-1, also when the hash
\* value is negative; every other bit is left as it was; so the true bits
\* number at most num_hashes times the items added.
C15_AddSetsItsBits ==
    /\ [][(BloomReady /\ ret'.op = "add" /\ ret'.item # None) =>
            /\ IndicesOf(ret'.item) \subseteq 0..(bloom.size - 1)
            /\ DOMAIN bloom'.bit_array = DOMAIN bloom.bit_array
            /\ \A i \in DOMAIN bloom.bit_array :
                   bloom'.bit_array[i]
                       = (bloom.bit_array[i] \/ i \in IndicesOf(ret'.item))]_vars
    /\ [](BloomReady =>
            /\ \A item \in Passwords \ {None} :
                   IndicesOf(item) \subseteq 0..(bloom.size - 1)
            /\ Cardinality(TrueBits)
                   <= Cardinality({Str(s) : s \in added}) * bloom.num_hashes)

\* add was just called with an item whose hash value is negative for seed 0
\* and it left a bit of the array false
C15_Witness ==
    /\ BloomReady
    /\ ret.op = "add" /\ ret.item # None
    /\ PyHash(FStr(Str(ret.item), 0), hashSecret) < 0
    /\ IndicesOf(ret.item) \subseteq TrueBits
    /\ ~AllBitsSet

\* x mod 2^p of a 32-bit value x
LowBits(x, p) == BitsToInt(SubSeq(x, 1, p))

\* the bit length of floor(x / 2^p): the position of its highest set bit
BitLength(x, p) ==
    LET ones == {i \in (p + 1)..32 : x[i] = 1}
    IN  IF ones = {} THEN 0 ELSE (CHOOSE i \in ones : \A k \in ones : k <= i) - p

\* for each non-null address and precision: j = x mod 2^p, and the rank, the
\* bit length of floor(x / 2^p) or 32 when that is 0
IndexByValue ==
    [a \in Addresses \ {None}, p \in 1..MaxP |-> LowBits(mmh3_hash(Str(a)), p)]

RankByValue ==
    [a \in Addresses \ {None}, p \in 1..MaxP |->
        LET len == BitLength(mmh3_hash(Str(a)), p)
        IN  IF len = 0 THEN 32 ELSE len]

\* C16: add of a non-null item with 32-bit hash x changes at most one
\* register: with j = x mod 2^p, which lies in 0..m-1, and rank the bit length
\* of floor(x / 2^p), or 32 when that is 0, registers[j] becomes
\* max(old registers[j], rank) and every other register is unchanged.
C16_AddUpdatesOneRegister ==
    [][(HllReady /\ ret'.op = "add" /\ ret'.item # None) =>
          LET j    == IndexByValue[ret'.item, hll.p]
              rank == RankByValue[ret'.item, hll.p]
          IN  /\ j \in 0..(hll.m - 1)
              /\ DOMAIN hll'.registers = DOMAIN hll.registers
              /\ hll'.registers[j] = Max(hll.registers[j], rank)
              /\ \A k \in DOMAIN hll.registers :
                     k # j => hll'.registers[k] = hll.registers[k]
              /\ [hll' EXCEPT !.registers = hll.registers] = hll]_vars

\* add was just called with an item whose remainder is 0, its register holds
\* the sentinel 32, and another register holds a rank stored before
C16_Witness ==
    /\ HllReady
    /\ ret.op = "add" /\ ret.item # None
    /\ BitLength(mmh3_hash(Str(ret.item)), hll.p) = 0
    /\ hll.registers[IndexByValue[ret.item, hll.p]] = 32
    /\ \E k \in DOMAIN hll.registers :
           /\ k # IndexByValue[ret.item, hll.p]
           /\ hll.registers[k] \in 1..31

\* E <= 2.5 * m for E = alpha * m * m / Z, decided as
\* alpha.num * m * 2^32 <= (5 * alpha.den / 2) * (Z.hi * 2^16 + Z.lo)
BelowThreshold(self) ==
    LET Z == SumPow2Neg(self, 0)
        c == (5 * self.alpha.den) \div 2
        A == self.alpha.num * self.m * 65536 - c * Z.hi
    IN  \/ A <= 0
        \/ A < c /\ A * 65536 <= c * Z.lo

\* C17: count selects its result by the small-range rule: with Z the sum of
\* 2^(-r) over the registers and E = alpha * m^2 / Z, it returns
\* m * ln(m / V) exactly when E <= 2.5 * m and the number V of registers equal
\* to 0 is greater than 0, and returns E in every other case.
C17_SmallRangeRule ==
    (HllReady /\ ret.op = "count") =>
        LET V == Cardinality({j \in DOMAIN hll.registers : hll.registers[j] = 0})
            E == [num |-> hll.alpha.num * hll.m * hll.m, den |-> hll.alpha.den,
                  Z |-> SumPow2Neg(hll, 0)]
        IN  /\ hll.alpha.den % 2 = 0
            /\ hll.small_range_correction * 2 = 5 * hll.m
            /\ ret.val.E = E
            /\ ret.val.m = hll.m
            /\ IF BelowThreshold(hll) /\ V > 0
               THEN ret.val.branch = "linear" /\ ret.val.V = V
               ELSE ret.val.branch = "raw"

\* count just returned E while some register is still 0: E is above the
\* threshold
C17_Witness ==
    /\ HllReady
    /\ ret.op = "count" /\ ret.val.branch = "raw"
    /\ \E j \in DOMAIN hll.registers : hll.registers[j] = 0
    /\ ~BelowThreshold(hll)

\* count returned E at or below the threshold because no register is 0
C17_WitnessNoZero ==
    /\ HllReady
    /\ ret.op = "count" /\ ret.val.branch = "raw"
    /\ BelowThreshold(hll)

\* the distinct non-null strings added so far
AddedStrings == {Str(s) : s \in added}

\* the instance that results from adding each string of S once, in one
\* fixed order
RECURSIVE BloomOfSet(_, _)
BloomOfSet(self, S) ==
    IF S = {} THEN self
    ELSE LET s == CHOOSE s \in S : TRUE
         IN  BloomOfSet(BloomFilter_add(self, StrVal(s), hashSecret), S \ {s})

RECURSIVE HllOfSet(_, _)
HllOfSet(self, S) ==
    IF S = {} THEN self
    ELSE LET s == CHOOSE s \in S : TRUE
         IN  HllOfSet(HyperLogLog_add(self, StrVal(s)), S \ {s})

\* C18: the state of either structure after a sequence of add calls is the
\* one obtained by adding each distinct non-null string once: order,
\* repetition and add(None) calls do not matter, and neither do they for the
\* results of contains and count.
C18_StateOfTheSetAdded ==
    /\ BloomReady =>
         LET canon == BloomOfSet(BloomFilter_init(bloom.size, bloom.num_hashes),
                                 AddedStrings)
         IN  /\ bloom = canon
             /\ ret.op = "contains" =>
                    ret.val = BloomFilter_contains(canon, ret.item, hashSecret)
    /\ HllReady =>
         LET canon == HllOfSet(HyperLogLog_init(hll.p), AddedStrings)
         IN  /\ hll = canon
             /\ ret.op = "count" => ret.val = HyperLogLog_count(canon)

\* an add repeated an earlier call after two strings of different rank were
\* added to the same register
C18_Witness ==
    /\ HllReady
    /\ ret.op = "add" /\ ret.again /\ ret.item # None
    /\ \E s \in added :
           /\ Str(s) # Str(ret.item)
           /\ hllIndex(hll, s) = hllIndex(hll, ret.item)
           /\ _rho(hllRemainder(hll, s)) > _rho(hllRemainder(hll, ret.item))

\* C19: with precision p, 1 <= p < 32, every register holds an integer in
\* 0..32-p or the sentinel 32, never a value strictly between 32-p and 32 or
\* above 32, and a register that has reached 32 stays at 32.
C19_RegisterRange ==
    /\ [](HllReady =>
            /\ hll.p >= 1 /\ hll.p < 32
            /\ \A j \in DOMAIN hll.registers :
                   hll.registers[j] \in (0..(32 - hll.p)) \cup {32})
    /\ [][HllReady =>
            \A j \in DOMAIN hll.registers :
                hll.registers[j] = 32 => hll'.registers[j] = 32]_vars

\* add was just called with an item of rank below 32 on a register that
\* holds 32, while another register holds the largest bit length 32-p
C19_Witness ==
    /\ HllReady
    /\ ret.op = "add" /\ ret.item # None
    /\ _rho(hllRemainder(hll, ret.item)) < 32
    /\ hll.registers[hllIndex(hll, ret.item)] = 32
    /\ \E k \in DOMAIN hll.registers : hll.registers[k] = 32 - hll.p

\* C20: count on an instance to which no non-null item was added, fresh or
\* after add(None) calls only, takes the linear branch with
\* E = alpha * m <= 2.5 * m and V = m > 0 and so returns m * ln(m / m) = 0,
\* for every precision p >= 1; alpha is at most 1 on both branches of
\* _get_alpha.
C20_EmptyCountsZero ==
    /\ (HllReady /\ added = {}) =>
          LET estimate == HyperLogLog_count(hll)
          IN  /\ estimate.branch = "linear"
              /\ estimate.V = estimate.m /\ estimate.m = hll.m /\ hll.m > 0
              /\ estimate.E.Z = [hi |-> hll.m * 65536, lo |-> 0]
              /\ BelowThreshold(hll)
              /\ ret.op = "count" => ret.val = estimate /\ ret.raised = ""
    /\ \A p \in 1..17 : LET alpha == _get_alpha(p, Pow2(p))
                        IN  alpha.num > 0 /\ alpha.num <= alpha.den

\* count just returned on an instance whose only add calls passed None
C20_Witness ==
    /\ HllReady /\ added = {}
    /\ ret.op = "count" /\ ret.again
    /\ ret.val.branch = "linear" /\ ret.val.V = hll.m
    /\ hll.p = MaxP

----------------------------------------------------------------------------
(* The caller of check_password_uniqueness (SpecBatch) *)

\* The process has built a BloomFilter, or holds None in its place.
InitBatch ==
    /\ hashSecret \in HashSecrets
    /\ \/ bloom = NoBloom
       \/ \E size \in 1..MaxSize, num_hashes \in 1..MaxHashes :
              bloom = BloomFilter_init(size, num_hashes)
    /\ ret = [op |-> "BloomFilter", item |-> None, args |-> <<>>,
              raised |-> "", val |-> "None", again |-> FALSE]
    /\ hll = NoHll
    /\ added = {}
    /\ answers = {}
    /\ estimates = {}
    /\ replay = NoReplay
    /\ pc = <<>>
    /\ loc = <<>>

\* for password in existing_passwords: bloom.add(password)
BatchAdd(item) ==
    /\ bloom.size > 0
    /\ ret.op # "check"
    /\ bloom' = BloomFilter_add(bloom, item, hashSecret)
    /\ added' = IF item = None THEN added ELSE added \cup {item}
    /\ ret' = Call("add", item, <<>>, "", "None")
    /\ UNCHANGED <<hashSecret, hll, answers, estimates, replay, pc, loc>>

\* results = check_password_uniqueness(bloom, new_passwords), the last call
\* the process makes
BatchCheck(new_passwords) ==
    /\ ret.op # "check"
    /\ LET out == check_password_uniqueness(bloom, new_passwords, hashSecret)
       IN  ret' = Call("check", new_passwords, <<>>, out.raised, out.results)
    /\ UNCHANGED <<hashSecret, bloom, hll, added, answers, estimates, replay, pc, loc>>

NewPasswordLists == {None} \cup {ListVal(q) : q \in SeqsUpTo(Passwords, MaxBatch)}

NextBatch ==
    \/ \E item \in Passwords : BatchAdd(item)
    \/ \E new_passwords \in NewPasswordLists : BatchCheck(new_passwords)

SpecBatch == InitBatch /\ [][NextBatch]_vars

\* the entries of the list just classified, and the key of an entry
BatchEntries == {ret.item.s[n] : n \in 1..Len(ret.item.s)}

BatchKey(entry) == IF entry = None THEN <<>> ELSE Str(entry)

\* C12: the mapping check_password_uniqueness returns has exactly the string
\* forms of the list entries as keys, None counting as the empty string;
\* a key is mapped to the used status exactly when contains of that string
\* is true and to the unique status otherwise; every entry that was added
\* before is mapped to the used status; the call leaves the bits as they
\* were.
C12_BatchClassification ==
    /\ [][ret'.op = "check" => bloom' = bloom]_vars
    /\ []((ret.op = "check" /\ ret.raised = "" /\ ret.item # None) =>
            /\ DOMAIN ret.val = {BatchKey(e) : e \in BatchEntries}
            /\ \A k \in DOMAIN ret.val :
                   /\ ret.val[k] \in {StatusUsed, StatusUnique}
                   /\ ret.val[k] = StatusUsed
                          <=> BloomFilter_contains(bloom, StrVal(k), hashSecret)
            /\ \A e \in BatchEntries \cap added : ret.val[Str(e)] = StatusUsed)

\* a list holding None and a value added before was just classified: the
\* empty string came out unique and the added value used
C12_Witness ==
    /\ BloomReady
    /\ ret.op = "check" /\ ret.raised = "" /\ ret.item # None
    /\ None \in BatchEntries
    /\ \E e \in BatchEntries \cap added : ret.val[Str(e)] = StatusUsed
    /\ ret.val[<<>>] = StatusUnique

----------------------------------------------------------------------------
(* Two runs of the bloom.py process given the same calls (SpecRuns) *)

\* Both runs have built BloomFilter(size, num_hashes); each run drew its own
\* hash key when its process started.
InitRuns ==
    /\ hashSecret \in HashSecrets
    /\ \E size \in 1..MaxSize, num_hashes \in 1..MaxHashes :
          /\ bloom = BloomFilter_init(size, num_hashes)
          /\ \E secret2 \in HashSecrets :
                replay = [hashSecret |-> secret2,
                          bloom |-> BloomFilter_init(size, num_hashes)]
          /\ ret = [op |-> "BloomFilter", item |-> None, args |-> <<size, num_hashes>>,
                    raised |-> "", val |-> "None", again |-> FALSE]
    /\ hll = NoHll
    /\ added = {}
    /\ answers = {}
    /\ estimates = {}
    /\ pc = <<>>
    /\ loc = <<>>

\* bloom.add(item) in both runs
RunsAdd(item) ==
    /\ bloom' = BloomFilter_add(bloom, item, hashSecret)
    /\ replay' = [replay EXCEPT
                    !.bloom = BloomFilter_add(replay.bloom, item, replay.hashSecret)]
    /\ added' = IF item = None THEN added ELSE added \cup {item}
    /\ ret' = Call("add", item, <<>>, "", "None")
    /\ UNCHANGED <<hashSecret, hll, answers, estimates, pc, loc>>

\* bloom.contains(item) in both runs; val holds the two answers
RunsContains(item) ==
    /\ ret' = Call("contains", item, <<>>, "",
                   <<BloomFilter_contains(bloom, item, hashSecret),
                     BloomFilter_contains(replay.bloom, item, replay.hashSecret)>>)
    /\ UNCHANGED <<hashSecret, bloom, hll, added, answers, estimates, replay, pc, loc>>

NextRuns ==
    \/ \E item \in Passwords : RunsAdd(item)
    \/ \E item \in Passwords : RunsContains(item)

SpecRuns == InitRuns /\ [][NextRuns]_vars

\* C2: the index function does not vary between process runs: every item
\* and seed gets the same index in both runs, so after the same add calls
\* both runs hold the same bits and give the same contains answers.
C2_SameInEveryRun ==
    /\ \A item \in Passwords \ {None} : \A seed \in 0..(bloom.num_hashes - 1) :
           _hash(bloom, Str(item), seed, hashSecret)
               = _hash(replay.bloom, Str(item), seed, replay.hashSecret)
    /\ bloom.bit_array = replay.bloom.bit_array
    /\ \A item \in Passwords :
           BloomFilter_contains(bloom, item, hashSecret)
               = BloomFilter_contains(replay.bloom, item, replay.hashSecret)
    /\ ret.op = "contains" => ret.val[1] = ret.val[2]

----------------------------------------------------------------------------
(* Two threads calling add on one instance (SpecThreads) *)

Threads == {1, 2}

NoLocals == [item |-> None, item_str |-> <<>>, i |-> 0, index |-> 0,
             j |-> 0, w |-> 0, rd |-> 0, v |-> 0]

\* The instance is as one earlier add call (ret) left it; no thread has
\* called add yet.
InitThreads ==
    /\ hashSecret \in HashSecrets
    /\ \/ /\ \E size \in 1..MaxSize, num_hashes \in 1..MaxHashes, prior \in Passwords :
                /\ bloom = BloomFilter_add(BloomFilter_init(size, num_hashes),
                                           prior, hashSecret)
                /\ ret = [op |-> "add", item |-> prior, args |-> <<>>,
                          raised |-> "", val |-> "None", again |-> FALSE]
          /\ hll = NoHll
       \/ /\ \E p \in 1..MaxP, prior \in Addresses :
                /\ hll = HyperLogLog_add(HyperLogLog_init(p), prior)
                /\ ret = [op |-> "add", item |-> prior, args |-> <<>>,
                          raised |-> "", val |-> "None", again |-> FALSE]
          /\ bloom = NoBloom
    /\ added = {ret.item} \ {None}
    /\ answers = {}
    /\ estimates = {}
    /\ replay = NoReplay
    /\ pc = [t \in Threads |-> "idle"]
    /\ loc = [t \in Threads |-> NoLocals]

\* BloomFilter.add entered: the None check and item_str = str(item)
T_BloomCall(t, item) ==
    /\ bloom.size > 0 /\ pc[t] = "idle"
    /\ IF item = None
       THEN /\ pc' = [pc EXCEPT ![t] = "done"]
            /\ loc' = loc
       ELSE /\ pc' = [pc EXCEPT ![t] = "loop"]
            /\ loc' = [loc EXCEPT ![t].item = item, ![t].item_str = Str(item), ![t].i = 0]
    /\ UNCHANGED <<bloom, hashSecret, hll, added, ret, answers, estimates, replay>>

\* a loop that ends one seed early
T_BloomLoop_short(t) ==
    /\ pc[t] = "loop"
    /\ IF loc[t].i >= bloom.num_hashes - 1
       THEN /\ pc' = [pc EXCEPT ![t] = "done"]
            /\ loc' = loc
       ELSE /\ pc' = [pc EXCEPT ![t] = "store"]
            /\ loc' = [loc EXCEPT ![t].index =
                          _hash(bloom, loc[t].item_str, loc[t].i, hashSecret)]
    /\ UNCHANGED <<bloom, hashSecret, hll, added, ret, answers, estimates, replay>>

\* for i in range(self.num_hashes): index = self._hash(item_str, i)
T_BloomLoop(t) ==
    /\ pc[t] = "loop"
    /\ IF loc[t].i >= bloom.num_hashes
       THEN /\ pc' = [pc EXCEPT ![t] = "done"]
            /\ loc' = loc
       ELSE /\ pc' = [pc EXCEPT ![t] = "store"]
            /\ loc' = [loc EXCEPT ![t].index =
                          _hash(bloom, loc[t].item_str, loc[t].i, hashSecret)]
    /\ UNCHANGED <<bloom, hashSecret, hll, added, ret, answers, estimates, replay>>

\* self.bit_array[index] = True: one store into the list cell
T_BloomStore(t) ==
    /\ pc[t] = "store"
    /\ bloom' = [bloom EXCEPT !.bit_array[loc[t].index] = TRUE]
    /\ loc' = [loc EXCEPT ![t].i = loc[t].i + 1]
    /\ pc' = [pc EXCEPT ![t] = "loop"]
    /\ UNCHANGED <<hashSecret, hll, added, ret, answers, estimates, replay>>

\* HyperLogLog.add entered: the None check, x, j and w
T_HllCall(t, item) ==
    /\ hll.m > 0 /\ pc[t] = "idle"
    /\ IF item = None
       THEN /\ pc' = [pc EXCEPT ![t] = "done"]
            /\ loc' = loc
       ELSE /\ pc' = [pc EXCEPT ![t] = "read"]
            /\ loc' = [loc EXCEPT ![t].item = item,
                                  ![t].j = hllIndex(hll, item),
                                  ![t].w = hllRemainder(hll, item)]
    /\ UNCHANGED <<bloom, hashSecret, hll, added, ret, answers, estimates, replay>>

\* the load of self.registers[j], the first argument of max
T_HllRead(t) ==
    /\ pc[t] = "read"
    /\ loc' = [loc EXCEPT ![t].rd = hll.registers[loc[t].j]]
    /\ pc' = [pc EXCEPT ![t] = "max"]
    /\ UNCHANGED <<bloom, hashSecret, hll, added, ret, answers, estimates, replay>>

\* a step that keeps the rank and drops the value read
T_HllMax_overwrite(t) ==
    /\ pc[t] = "max"
    /\ loc' = [loc EXCEPT ![t].v = _rho(loc[t].w)]
    /\ pc' = [pc EXCEPT ![t] = "write"]
    /\ UNCHANGED <<bloom, hashSecret, hll, added, ret, answers, estimates, replay>>

\* max(<value read>, self._rho(w))
T_HllMax(t) ==
    /\ pc[t] = "max"
    /\ loc' = [loc EXCEPT ![t].v = Max(loc[t].rd, _rho(loc[t].w))]
    /\ pc' = [pc EXCEPT ![t] = "write"]
    /\ UNCHANGED <<bloom, hashSecret, hll, added, ret, answers, estimates, replay>>

\* self.registers[j] = <that maximum>
T_HllWrite(t) ==
    /\ pc[t] = "write"
    /\ hll' = [hll EXCEPT !.registers[loc[t].j] = loc[t].v]
    /\ pc' = [pc EXCEPT ![t] = "done"]
    /\ UNCHANGED <<bloom, hashSecret, loc, added, ret, answers, estimates, replay>>

NextThreads ==
    \/ \E t \in Threads, item \in Passwords : T_BloomCall(t, item)
    \/ \E t \in Threads : T_BloomLoop(t)
    \/ \E t \in Threads : T_BloomStore(t)
    \/ \E t \in Threads, item \in Addresses : T_HllCall(t, item)
    \/ \E t \in Threads : T_HllRead(t)
    \/ \E t \in Threads : T_HllMax(t)
    \/ \E t \in Threads : T_HllWrite(t)

SpecThreads == InitThreads /\ [][NextThreads]_vars

AllDone == \A t \in Threads : pc[t] = "done"

\* the instance the two threads started from
HllBefore == HyperLogLog_add(HyperLogLog_init(hll.p), ret.item)

BloomBefore == BloomFilter_add(BloomFilter_init(bloom.size, bloom.num_hashes),
                               ret.item, hashSecret)

\* what the two add calls give when one runs after the other
HllSerial == HyperLogLog_add(HyperLogLog_add(HllBefore, loc[1].item), loc[2].item)

BloomSerial == BloomFilter_add(BloomFilter_add(BloomBefore, loc[1].item, hashSecret),
                               loc[2].item, hashSecret)

\* the ranks of the items the threads added to register j
RanksAt(j) == {_rho(loc[t].w) : t \in {u \in Threads : loc[u].item # None /\ loc[u].j = j}}

\* C9: two unserialized add calls on a HyperLogLog can lose an update. Once
\* both have completed, a register nobody targeted is as before, and a
\* targeted register holds the maximum of its earlier value and the rank of
\* one of the items added to it: never more than the serial result, and
\* (the witness) possibly less than the largest rank added to it.
C9_RegisterHoldsOneUpdate ==
    (HllReady /\ AllDone) =>
        \A j \in DOMAIN hll.registers :
            /\ hll.registers[j] <= HllSerial.registers[j]
            /\ RanksAt(j) = {} => hll.registers[j] = HllBefore.registers[j]
            /\ RanksAt(j) # {} =>
                   \E r \in RanksAt(j) : hll.registers[j] = Max(HllBefore.registers[j], r)

\* both add calls have completed and a register ended below the largest
\* rank added to it, the value one thread had already stored there
C9_Witness ==
    /\ HllReady /\ AllDone
    /\ \E j \in DOMAIN hll.registers :
          /\ \E r \in RanksAt(j) : hll.registers[j] < r
          /\ \E t \in Threads : loc[t].j = j /\ loc[t].v > hll.registers[j]

\* C10 as stated: once two unserialized add calls on a BloomFilter have
\* completed, a bit that one of them wrote as true is false and contains
\* of an added item returns false.
C10_BitLostWhenDone ==
    (BloomReady /\ AllDone /\ \E t \in Threads : loc[t].item # None) =>
        \E t \in Threads :
            /\ loc[t].item # None
            /\ ~BloomFilter_contains(bloom, loc[t].item, hashSecret)

\* C10 amended: in every interleaving of two unserialized add calls on a
\* BloomFilter, no store is lost: a true bit stays true at every step, and
\* once both calls have completed the bits are those of the serial result
\* and contains returns true for each item added.
C10_NoBitLost ==
    /\ [][BloomReady => \A i \in DOMAIN bloom.bit_array :
              bloom.bit_array[i] => bloom'.bit_array[i]]_vars
    /\ []((BloomReady /\ AllDone) =>
            /\ bloom.bit_array = BloomSerial.bit_array
            /\ \A t \in Threads :
                   loc[t].item # None =>
                       BloomFilter_contains(bloom, loc[t].item, hashSecret))

\* both add calls, of different strings, have completed with their last
\* stores going to the same cell, and contains is true for both items
C10_Witness ==
    /\ BloomReady /\ AllDone
    /\ loc[1].item # None /\ loc[2].item # None
    /\ Str(loc[1].item) # Str(loc[2].item)
    /\ loc[1].i = 2 /\ loc[2].i = 2
    /\ loc[1].index = loc[2].index
    /\ \A t \in Threads : BloomFilter_contains(bloom, loc[t].item, hashSecret)

====
